---- MODULE Spec2Model ----
(***************************************************************************)
(* Model of transcribe_mp4.py: one process run is the linear sequence      *)
(*   main: argument check -> credential check -> transcribe_mp4(file_path) *)
(*   transcribe_mp4: client -> exists -> getsize -> open -> remote call    *)
(*   main: truthiness test of the result -> write <stem>_transcript.txt    *)
(* The file system and the remote service are the environment.  Runs       *)
(* follow one another on the same file system.                             *)
(***************************************************************************)
EXTENDS Integers, Sequences, FiniteSets, TLC

\* ---------------------------------------------------------------- bounds
MaxArgs == 2        \* most positional arguments given to one invocation
MaxTextLen == 1     \* longest text the remote service returns
MaxDelta == 1       \* input sizes range over the limit +/- MaxDelta bytes

\* ------------------------------------------------------------- constants
MiB == 1048576      \* 1024 * 1024
LimitMB == 25       \* the size ceiling, in MiB

LimitBytes == LimitMB * MiB

\* ---------------------------------------------------------- Python values
PyNone == [tag |-> "None", val |-> <<>>]
PyStr(s) == [tag |-> "str", val |-> s]

\* bool(v) for v a str or None: None and "" are falsy
Truthy(v) == v.tag = "str" /\ Len(v.val) > 0

Alphabet == {"h", "enye"}

RECURSIVE SeqsUpTo(_, _)
SeqsUpTo(S, n) ==
  IF n = 0 THEN {<<>>}
  ELSE LET shorter == SeqsUpTo(S, n - 1)
       IN  shorter \cup {Append(s, c) : s \in shorter, c \in S}

Texts == SeqsUpTo(Alphabet, MaxTextLen)

\* values of the OPENAI_API_KEY environment variable: unset, empty, set
KeyValues == {PyNone, PyStr(<<>>), PyStr(<<"k">>)}

\* messages of the exceptions the remote call raises
RemoteErrors == {"auth", "connection"}

\* ------------------------------------------------------------ file system
Paths ==
  { [dir |-> "",  stem |-> "clip", ext |-> "mp4"],
    [dir |-> "d", stem |-> "clip", ext |-> "mov"] }

NoPath == [dir |-> "", stem |-> "", ext |-> ""]

\* Path(file_path).stem: the final component without its suffix
Stem(p) == p.stem

\* Path(file_path).stem + "_transcript.txt": a name relative to the cwd
OutputFile(p) == <<Stem(p), "_transcript.txt">>

OutNames == {OutputFile(p) : p \in Paths}

NoFile == -1
Sizes == {0} \cup ((LimitBytes - MaxDelta) .. (LimitBytes + MaxDelta))

Absent == [tag |-> "absent", val |-> <<>>]
File(bytes) == [tag |-> "file", val |-> bytes]

\* UTF-8 encoding of one character
Utf8Char(c) == IF c = "h" THEN <<104>> ELSE <<195, 177>>

\* str.encode('utf-8'), as the text-mode file object applies it
RECURSIVE Utf8Encode(_)
Utf8Encode(s) ==
  IF s = <<>> THEN <<>> ELSE Utf8Char(Head(s)) \o Utf8Encode(Tail(s))

\* ------------------------------------------------------------- size check
\* getsize / (1024 * 1024): true division; the quotient n / 2^20 is exact in
\* binary floating point, kept as whole MiB plus a fraction in 2^-20 units
TrueDivMiB(n) == [whole |-> n \div MiB, frac |-> n % MiB]

Unmeasured == [whole |-> -1, frac |-> 0]

\* the comparison applied to the floor of the quotient (// for /)
ExceedsLimit_Floor(fsz) == fsz.whole > LimitMB

\* the comparison written >= instead of >
ExceedsLimit_GE(fsz) == fsz.whole >= LimitMB

\* file_size > 25
ExceedsLimit(fsz) ==
  \/ fsz.whole > LimitMB
  \/ fsz.whole = LimitMB /\ fsz.frac > 0

\* f"{file_size:.1f}": round the exact value to tenths, ties to even
Fmt1(fsz) ==
  LET t == fsz.frac * 10
      q == t \div MiB
      r == t % MiB
      half == MiB \div 2
      up == r > half \/ (r = half /\ q % 2 = 1)
      tenths == fsz.whole * 10 + q + (IF up THEN 1 ELSE 0)
  IN  <<tenths \div 10, tenths % 10>>

\* ------------------------------------------------------------------ state
VARIABLES
  argv,          \* sys.argv, program name first
  environ,       \* os.environ['OPENAI_API_KEY'] of the running process
  fs,            \* input files: path -> byte length, or NoFile
  out,           \* output files in the cwd: name -> Absent or File(bytes)
  pc,            \* position of the process
  file_path,     \* main's file_path / transcribe_mp4's parameter
  found,         \* result of os.path.exists: "unchecked", "yes", "no"
  size_bytes,    \* result of os.path.getsize, NoFile before the call
  file_size,     \* local file_size
  audio_file,    \* the input handle: "closed" or "open"
  callOutcome,   \* the remote call: not made, returned, or raised (with str(e))
  transcript,    \* main's transcript
  stdout,        \* lines printed by this run
  termination,   \* "running", "returned", "sys_exit", "unhandled"
  exitStatus,    \* process exit status, -1 while running
  raisedAt,      \* the step an unhandled exception came from, "" if none
  io,            \* per-run counts of the I/O operations performed
  outAtStart,    \* out as it was when this run started
  prev           \* the previous run, when it ended with status 0

vars == <<argv, environ, fs, out, pc, file_path, found, size_bytes,
          file_size, audio_file, callOutcome, transcript, stdout,
          termination, exitStatus, raisedAt, io, outAtStart, prev>>

locals == <<file_path, found, size_bytes, file_size, audio_file,
            callOutcome, transcript>>

NoIO == [credReads |-> 0, existsChecks |-> 0, sizeChecks |-> 0,
         inputOpens |-> 0, netCalls |-> 0, outputWrites |-> 0]

NoCall == [kind |-> "none", error |-> ""]
Returned == [kind |-> "returned", error |-> ""]
Raised(e) == [kind |-> "raised", error |-> e]

NoPrev == [status |-> -1, path |-> NoPath, text |-> PyNone]

ArgLists == UNION {[1..n -> Paths] : n \in 0..MaxArgs}

\* a fresh process: interpreter started, nothing of main executed yet
Fresh ==
  /\ pc = "main_argc"
  /\ file_path = NoPath
  /\ found = "unchecked"
  /\ size_bytes = NoFile
  /\ file_size = Unmeasured
  /\ audio_file = "closed"
  /\ callOutcome = NoCall
  /\ transcript = PyNone
  /\ stdout = <<>>
  /\ termination = "running"
  /\ exitStatus = -1
  /\ raisedAt = ""
  /\ io = NoIO

Init ==
  /\ argv \in {<<"transcribe_mp4.py">> \o a : a \in ArgLists}
  /\ environ \in KeyValues
  /\ fs \in [Paths -> {NoFile} \cup Sizes]
  /\ out \in [OutNames -> {Absent} \cup {File(Utf8Encode(t)) : t \in Texts}]
  /\ Fresh
  /\ outAtStart = out
  /\ prev = NoPrev

\* print(...): one entry <<text, argument>> per line written
Emit(lines) == stdout' = stdout \o lines

\* sys.exit(1)
SysExit1 ==
  /\ termination' = "sys_exit"
  /\ exitStatus' = 1
  /\ pc' = "done"
  /\ raisedAt' = ""

\* an exception nothing catches: traceback, interpreter exits with status 1
Unhandled(step) ==
  /\ termination' = "unhandled"
  /\ exitStatus' = 1
  /\ pc' = "done"
  /\ raisedAt' = step

Running == UNCHANGED <<termination, exitStatus, raisedAt>>

Count(op) == io' = [io EXCEPT ![op] = @ + 1]

\* ------------------------------------------------------------------- main
\* lines 51-56: the argument count check
MainArgc ==
  /\ pc = "main_argc"
  /\ IF Len(argv) # 2
       THEN /\ Emit(<< <<"Usage: python transcribe_mp4.py <path_to_mp4_file>", <<>> >>,
                       <<"Example: python transcribe_mp4.py ./my_video.mp4", <<>> >> >>)
            /\ SysExit1
            /\ UNCHANGED file_path
       ELSE /\ file_path' = argv[2]
            /\ pc' = "main_cred"
            /\ Running
            /\ UNCHANGED stdout
  /\ UNCHANGED <<argv, environ, fs, out, found, size_bytes, file_size,
                 audio_file, callOutcome, transcript, io, outAtStart, prev>>

\* the credential check without its sys.exit(1)
MainCred_NoExit ==
  /\ pc = "main_cred"
  /\ Count("credReads")
  /\ IF ~Truthy(environ)
       THEN Emit(<< <<"Error: OPENAI_API_KEY environment variable is not set.", <<>> >>,
                    <<"Make sure your .env file is loaded or export the key manually.", <<>> >> >>)
       ELSE UNCHANGED stdout
  /\ pc' = "t_client"
  /\ Running
  /\ UNCHANGED <<argv, environ, fs, out, locals, outAtStart, prev>>

\* lines 59-62: the credential check
MainCred ==
  /\ pc = "main_cred"
  /\ Count("credReads")
  /\ IF ~Truthy(environ)
       THEN /\ Emit(<< <<"Error: OPENAI_API_KEY environment variable is not set.", <<>> >>,
                       <<"Make sure your .env file is loaded or export the key manually.", <<>> >> >>)
            /\ SysExit1
       ELSE /\ pc' = "t_client"
            /\ Running
            /\ UNCHANGED stdout
  /\ UNCHANGED <<argv, environ, fs, out, locals, outAtStart, prev>>

\* --------------------------------------------------------- transcribe_mp4
\* line 16: the client is built from the same environment variable; the
\* constructor rejects only an unset key, which main has already excluded
TClient ==
  /\ pc = "t_client"
  /\ Count("credReads")
  /\ IF environ = PyNone
       THEN /\ Unhandled("t_client")
       ELSE /\ pc' = "t_exists"
            /\ Running
  /\ UNCHANGED <<argv, environ, fs, out, locals, stdout, outAtStart, prev>>

\* lines 19-21: the existence check
TExists ==
  /\ pc = "t_exists"
  /\ Count("existsChecks")
  /\ IF fs[file_path] = NoFile
       THEN /\ found' = "no"
            /\ Emit(<< <<"Error: File not found.", file_path>> >>)
            /\ transcript' = PyNone
            /\ pc' = "main_check"
       ELSE /\ found' = "yes"
            /\ pc' = "t_size"
            /\ UNCHANGED <<stdout, transcript>>
  /\ Running
  /\ UNCHANGED <<argv, environ, fs, out, file_path, size_bytes, file_size,
                 audio_file, callOutcome, outAtStart, prev>>

\* lines 24-32: the size measurement and the size check; os.path.getsize
\* raises OSError when the file is no longer there, outside any try block
TSize ==
  /\ pc = "t_size"
  /\ Count("sizeChecks")
  /\ IF fs[file_path] = NoFile
       THEN /\ Unhandled("t_size")
            /\ UNCHANGED <<size_bytes, file_size, stdout, transcript>>
       ELSE /\ size_bytes' = fs[file_path]
            /\ file_size' = TrueDivMiB(fs[file_path])
            /\ Running
            /\ IF ExceedsLimit(file_size')
                 THEN /\ Emit(<< <<"Error: File size exceeds OpenAI's 25MB limit.", Fmt1(file_size')>>,
                                 <<"Consider splitting the file or using a smaller file.", <<>> >> >>)
                      /\ transcript' = PyNone
                      /\ pc' = "main_check"
                 ELSE /\ Emit(<< <<"Transcribing: ", file_path>>,
                                 <<"File size: ", Fmt1(file_size')>>,
                                 <<"Processing... (this may take a moment)", <<>> >> >>)
                      /\ pc' = "t_open"
                      /\ UNCHANGED transcript
  /\ UNCHANGED <<argv, environ, fs, out, file_path, found, audio_file,
                 callOutcome, outAtStart, prev>>

\* lines 34-36 (and 45-47): open(file_path, 'rb') inside the try block
TOpen ==
  /\ pc = "t_open"
  /\ Count("inputOpens")
  /\ IF fs[file_path] = NoFile
       THEN /\ Emit(<< <<"Error during transcription: ", "No such file or directory">> >>)
            /\ transcript' = PyNone
            /\ pc' = "main_check"
            /\ UNCHANGED audio_file
       ELSE /\ audio_file' = "open"
            /\ pc' = "t_call"
            /\ UNCHANGED <<stdout, transcript>>
  /\ Running
  /\ UNCHANGED <<argv, environ, fs, out, file_path, found, size_bytes,
                 file_size, callOutcome, outAtStart, prev>>

\* the call made on a handle opened without a with block, never closed
RemoteReturn_NoClose ==
  /\ pc = "t_call"
  /\ \E t \in Texts : transcript' = PyStr(t)
  /\ Count("netCalls")
  /\ callOutcome' = Returned
  /\ pc' = "main_check"
  /\ Running
  /\ UNCHANGED <<argv, environ, fs, out, file_path, found, size_bytes,
                 file_size, audio_file, stdout, outAtStart, prev>>

\* lines 37-43: the call returns text; the with block closes the handle and
\* the text is returned to main
RemoteReturn ==
  /\ pc = "t_call"
  /\ \E t \in Texts : transcript' = PyStr(t)
  /\ Count("netCalls")
  /\ callOutcome' = Returned
  /\ audio_file' = "closed"
  /\ pc' = "main_check"
  /\ Running
  /\ UNCHANGED <<argv, environ, fs, out, file_path, found, size_bytes,
                 file_size, stdout, outAtStart, prev>>

\* the call without the except clause: the exception leaves the process
RemoteRaise_Propagates ==
  /\ pc = "t_call"
  /\ \E e \in RemoteErrors : callOutcome' = Raised(e)
  /\ Count("netCalls")
  /\ audio_file' = "closed"
  /\ transcript' = PyNone
  /\ Unhandled("t_call")
  /\ UNCHANGED <<argv, environ, fs, out, file_path, found, size_bytes,
                 file_size, stdout, outAtStart, prev>>

\* the except clause retrying the call once before giving up
RemoteRaise_Retry ==
  /\ pc = "t_call"
  /\ \E e \in RemoteErrors :
       /\ callOutcome' = Raised(e)
       /\ Emit(<< <<"Error during transcription: ", e>> >>)
  /\ Count("netCalls")
  /\ audio_file' = "closed"
  /\ transcript' = PyNone
  /\ pc' = IF io.netCalls = 0 THEN "t_open" ELSE "main_check"
  /\ Running
  /\ UNCHANGED <<argv, environ, fs, out, file_path, found, size_bytes,
                 file_size, outAtStart, prev>>

\* lines 37-41, 45-47: the call raises; the with block closes the handle and
\* the except clause prints str(e) and returns None
RemoteRaise ==
  /\ pc = "t_call"
  /\ \E e \in RemoteErrors :
       /\ callOutcome' = Raised(e)
       /\ Emit(<< <<"Error during transcription: ", e>> >>)
  /\ Count("netCalls")
  /\ audio_file' = "closed"
  /\ transcript' = PyNone
  /\ pc' = "main_check"
  /\ Running
  /\ UNCHANGED <<argv, environ, fs, out, file_path, found, size_bytes,
                 file_size, outAtStart, prev>>

\* ------------------------------------------------------------ main, again
Rule == "=================================================="

\* the failure branch without its sys.exit(1): main returns normally
MainCheck_NoExit ==
  /\ pc = "main_check"
  /\ IF Truthy(transcript)
       THEN /\ Emit(<< <<"", <<>> >>, <<Rule, <<>> >>,
                       <<"TRANSCRIPTION:", <<>> >>, <<Rule, <<>> >>,
                       <<"", transcript.val>>, <<Rule, <<>> >> >>)
            /\ pc' = "main_write"
            /\ Running
       ELSE /\ Emit(<< <<"Transcription failed.", <<>> >> >>)
            /\ termination' = "returned"
            /\ exitStatus' = 0
            /\ raisedAt' = ""
            /\ pc' = "done"
  /\ UNCHANGED <<argv, environ, fs, out, locals, io, outAtStart, prev>>

\* lines 67-72, 79-81: the truthiness test of the result
MainCheck ==
  /\ pc = "main_check"
  /\ IF Truthy(transcript)
       THEN /\ Emit(<< <<"", <<>> >>, <<Rule, <<>> >>,
                       <<"TRANSCRIPTION:", <<>> >>, <<Rule, <<>> >>,
                       <<"", transcript.val>>, <<Rule, <<>> >> >>)
            /\ pc' = "main_write"
            /\ Running
       ELSE /\ Emit(<< <<"Transcription failed.", <<>> >> >>)
            /\ SysExit1
  /\ UNCHANGED <<argv, environ, fs, out, locals, io, outAtStart, prev>>

\* the output opened in mode 'a' instead of 'w'
MainWrite_Append ==
  /\ pc = "main_write"
  /\ Count("outputWrites")
  /\ out' = [out EXCEPT ![OutputFile(file_path)] =
               File(@.val \o Utf8Encode(transcript.val))]
  /\ Emit(<< <<"", <<>> >>, <<"Transcription saved to: ", OutputFile(file_path)>> >>)
  /\ termination' = "returned"
  /\ exitStatus' = 0
  /\ raisedAt' = ""
  /\ pc' = "done"
  /\ UNCHANGED <<argv, environ, fs, locals, outAtStart, prev>>

\* lines 75-78: open(output_file, 'w', encoding='utf-8') truncates or
\* creates, write stores the encoded text, then main falls off its end
MainWrite ==
  /\ pc = "main_write"
  /\ Count("outputWrites")
  /\ out' = [out EXCEPT ![OutputFile(file_path)] = File(Utf8Encode(transcript.val))]
  /\ Emit(<< <<"", <<>> >>, <<"Transcription saved to: ", OutputFile(file_path)>> >>)
  /\ termination' = "returned"
  /\ exitStatus' = 0
  /\ raisedAt' = ""
  /\ pc' = "done"
  /\ UNCHANGED <<argv, environ, fs, locals, outAtStart, prev>>

\* lines 76-77 failing with OSError: either open fails and the file is left
\* as it was, or write fails after open has truncated it; nothing catches it
MainWriteFail ==
  /\ pc = "main_write"
  /\ Count("outputWrites")
  /\ \/ UNCHANGED out
     \/ out' = [out EXCEPT ![OutputFile(file_path)] = File(<<>>)]
  /\ Unhandled("main_write")
  /\ UNCHANGED <<argv, environ, fs, locals, stdout, outAtStart, prev>>

\* ------------------------------------------------------------ environment
\* another process creates, replaces or removes an input file at any time
FsChange ==
  /\ \E p \in Paths, s \in {NoFile} \cup Sizes :
       /\ fs[p] # s
       /\ fs' = [fs EXCEPT ![p] = s]
  /\ UNCHANGED <<argv, environ, out, pc, locals, stdout, termination,
                 exitStatus, raisedAt, io, outAtStart, prev>>

\* the user invokes the program again once the previous process has ended
Invoke ==
  /\ pc = "done"
  /\ argv' \in {<<"transcribe_mp4.py">> \o a : a \in ArgLists}
  /\ environ' \in KeyValues
  /\ prev' = IF exitStatus = 0
               THEN [status |-> 0, path |-> file_path, text |-> transcript]
               ELSE NoPrev
  /\ outAtStart' = out
  /\ pc' = "main_argc"
  /\ file_path' = NoPath
  /\ found' = "unchecked"
  /\ size_bytes' = NoFile
  /\ file_size' = Unmeasured
  /\ audio_file' = "closed"
  /\ callOutcome' = NoCall
  /\ transcript' = PyNone
  /\ stdout' = <<>>
  /\ termination' = "running"
  /\ exitStatus' = -1
  /\ raisedAt' = ""
  /\ io' = NoIO
  /\ UNCHANGED <<fs, out>>

Next ==
  \/ MainArgc
  \/ MainCred
  \/ TClient
  \/ TExists
  \/ TSize
  \/ TOpen
  \/ RemoteReturn
  \/ RemoteRaise
  \/ MainCheck
  \/ MainWrite
  \/ MainWriteFail
  \/ FsChange
  \/ Invoke

Spec == Init /\ [][Next]_vars

TypeOK ==
  /\ pc \in {"main_argc", "main_cred", "t_client", "t_exists", "t_size",
             "t_open", "t_call", "main_check", "main_write", "done"}
  /\ exitStatus \in {-1, 0, 1}
  /\ audio_file \in {"closed", "open"}

\* ================================================================= claims
Terminal == pc = "done"

PrintedLine(text, arg) ==
  \E i \in DOMAIN stdout : stdout[i][1] = text /\ stdout[i][2] = arg

Printed(text) == \E i \in DOMAIN stdout : stdout[i][1] = text

WithinLimit == size_bytes \in 0..LimitBytes
OverLimit == size_bytes > LimitBytes
OutputUntouched == out = outAtStart /\ io.outputWrites = 0

\* C1: a process ends with status 0 only if the remote call returned a
\* transcript and the output write was performed, and it ends with status 1
\* on a wrong argument count, an unset or empty credential, a path not
\* found, a size over the limit, and any failure of the remote call.
C1_ExitStatus ==
  Terminal =>
    /\ exitStatus \in {0, 1}
    /\ exitStatus = 0 =>
         /\ callOutcome.kind = "returned"
         /\ transcript.tag = "str"
         /\ io.outputWrites = 1
         /\ raisedAt = ""
         /\ out[OutputFile(file_path)].tag = "file"
    /\ Len(argv) # 2 => exitStatus = 1
    /\ ~Truthy(environ) => exitStatus = 1
    /\ found = "no" => exitStatus = 1
    /\ OverLimit => exitStatus = 1
    /\ callOutcome.kind = "raised" => exitStatus = 1
    /\ (io.inputOpens > 0 /\ callOutcome.kind # "returned") => exitStatus = 1

C1_Witness ==
  Terminal /\ exitStatus = 0 /\ Len(argv) = 2 /\ Truthy(environ)

\* C2: whenever the remote call returns without raising, whatever text it
\* returns, the run ends on the success path: the output file holds exactly
\* that text, the confirmation is printed, the status is 0 and
\* 'Transcription failed.' is not printed (a failing output write aside).
C2_ReturnedTextIsSaved ==
  (Terminal /\ callOutcome.kind = "returned" /\ raisedAt # "main_write") =>
    /\ exitStatus = 0
    /\ out[OutputFile(file_path)] = File(Utf8Encode(transcript.val))
    /\ PrintedLine("Transcription saved to: ", OutputFile(file_path))
    /\ ~Printed("Transcription failed.")

\* C3: the argument count is checked first, the credential second, the file
\* after: with an argument count other than one the process prints usage and
\* exits non-zero having read no credential, checked no file, made no call
\* and written nothing; with one argument and an unset or empty credential it
\* exits non-zero before any existence check, open, call or write.
C3_CheckOrder ==
  /\ Len(argv) # 2 =>
       /\ io = NoIO
       /\ out = outAtStart
       /\ audio_file = "closed"
       /\ pc # "main_argc" =>
            /\ Terminal
            /\ exitStatus = 1
            /\ Printed("Usage: python transcribe_mp4.py <path_to_mp4_file>")
  /\ (Len(argv) = 2 /\ ~Truthy(environ)) =>
       /\ io.existsChecks = 0 /\ io.sizeChecks = 0 /\ io.inputOpens = 0
       /\ io.netCalls = 0
       /\ OutputUntouched
       /\ found = "unchecked"
       /\ audio_file = "closed"
       /\ pc \notin {"main_argc", "main_cred"} =>
            /\ Terminal
            /\ exitStatus = 1
            /\ Printed("Error: OPENAI_API_KEY environment variable is not set.")
  /\ io.credReads > 0 => (Len(argv) = 2 /\ pc # "main_argc")
  /\ io.existsChecks > 0 => (io.credReads > 0 /\ Truthy(environ))

C3_Witness ==
  /\ Terminal /\ Len(argv) = 2 /\ ~Truthy(environ)
  /\ io.credReads = 1 /\ exitStatus = 1

\* C4: a network call is issued only when the path was found to exist and its
\* measured size was at most 25 MiB; when the path is not found or the file
\* is larger, the error is reported, failure is returned, no call is made,
\* no output is written and main exits non-zero.
C4_CallOnlyAfterChecks ==
  /\ (pc = "t_call" \/ io.netCalls > 0) => (found = "yes" /\ WithinLimit)
  /\ (found = "no" \/ OverLimit) =>
       /\ pc \in {"main_check", "done"}
       /\ transcript = PyNone
       /\ io.inputOpens = 0 /\ io.netCalls = 0
       /\ OutputUntouched
       /\ Terminal => (exitStatus = 1 /\ Printed("Transcription failed."))
  /\ found = "no" => PrintedLine("Error: File not found.", file_path)
  /\ OverLimit =>
       PrintedLine("Error: File size exceeds OpenAI's 25MB limit.",
                   Fmt1(file_size))

C4_Witness == Terminal /\ found = "yes" /\ OverLimit /\ exitStatus = 1

\* C5: the size check rejects exactly the files longer than 26,214,400 bytes:
\* a file of exactly 26,214,400 bytes, and every smaller one down to the
\* empty file, goes on towards the remote call; 26,214,401 bytes is rejected.
C5_SizeBoundary ==
  size_bytes # NoFile =>
    IF size_bytes > 26214400
      THEN /\ io.inputOpens = 0
           /\ pc \in {"main_check", "done"}
           /\ Printed("Error: File size exceeds OpenAI's 25MB limit.")
      ELSE /\ pc = "t_open" \/ io.inputOpens = 1
           /\ ~Printed("Error: File size exceeds OpenAI's 25MB limit.")
           /\ PrintedLine("File size: ", Fmt1(file_size))

C5_Witness == size_bytes = 26214400 /\ pc = "t_call" /\ audio_file = "open"

\* C6: when the remote call raises, the error is caught inside
\* transcribe_mp4, its message is printed, failure is returned, main prints
\* 'Transcription failed.' and exits non-zero, and no output file is created
\* or modified.
C6_RemoteErrorHandled ==
  callOutcome.kind = "raised" =>
    /\ found = "yes" /\ WithinLimit
    /\ PrintedLine("Error during transcription: ", callOutcome.error)
    /\ transcript = PyNone
    /\ OutputUntouched
    /\ pc \in {"main_check", "done"}
    /\ Terminal =>
         /\ termination = "sys_exit"
         /\ exitStatus = 1
         /\ stdout[Len(stdout)][1] = "Transcription failed."

C6_Witness ==
  Terminal /\ callOutcome.kind = "raised" /\ termination = "sys_exit"

\* C7: a successful run repeated on the same input with the remote call
\* returning the same text leaves the output file as the first run left it:
\* the second run truncates and rewrites the existing file, it neither
\* appends nor fails because the file exists, and it exits 0 as well.
C7_SecondRun ==
  /\ prev.status = 0
  /\ prev.path = file_path
  /\ callOutcome.kind = "returned"
  /\ transcript = prev.text

C7_Idempotent ==
  /\ (C7_SecondRun /\ pc = "main_check") => Truthy(transcript)
  /\ (C7_SecondRun /\ Terminal /\ raisedAt # "main_write") =>
       /\ exitStatus = 0
       /\ outAtStart[OutputFile(file_path)] = File(Utf8Encode(prev.text.val))
       /\ out = outAtStart

C7_Witness == C7_SecondRun /\ Terminal /\ exitStatus = 0

\* C8: the input handle is open only around the remote call, after the
\* existence and size checks have passed; it is closed once transcribe_mp4
\* has returned, in every terminal state, and while the output is written.
C8_HandleScoped ==
  /\ audio_file = "open" =>
       /\ pc = "t_call"
       /\ found = "yes" /\ WithinLimit
       /\ io.inputOpens = 1 /\ io.netCalls = 0
  /\ pc \in {"main_check", "main_write", "done"} => audio_file = "closed"
  /\ io.outputWrites > 0 => audio_file = "closed"

C8_Witness ==
  pc = "main_write" /\ io.inputOpens = 1 /\ audio_file = "closed"

\* C9: a run makes at most one remote call and never retries it, opens the
\* input at most once and writes the output at most once, in the order open,
\* call, write: the write does not start before the call has returned.
C9_AtMostOnceInOrder ==
  /\ io.inputOpens <= 1 /\ io.netCalls <= 1 /\ io.outputWrites <= 1
  /\ io.netCalls = 1 => io.inputOpens = 1
  /\ (pc = "main_write" \/ io.outputWrites = 1) =>
       (io.netCalls = 1 /\ callOutcome.kind = "returned")
  /\ callOutcome.kind = "raised" =>
       (pc \in {"main_check", "done"} /\ io.netCalls = 1)
  /\ pc = "t_call" => io.netCalls = 0

C9_Witness ==
  /\ Terminal
  /\ io.inputOpens = 1 /\ io.netCalls = 1 /\ io.outputWrites = 1
  /\ out[OutputFile(file_path)] = File(Utf8Encode(transcript.val))

\* C10: the output write is the only step from which an error leaves the
\* process unhandled; every other failure, in every step of transcribe_mp4,
\* becomes a printed message and a controlled exit with status 1.
C10_OnlyWritePropagates ==
  termination = "unhandled" => raisedAt = "main_write"
====
